---- MODULE Spec2Model ----
(***************************************************************************)
(* Model of lab-1/experiment.cpp: the Soldier record and its ordering, the *)
(* three hand-written sorts (insertion_sort, shaker_sort, merge_sort with  *)
(* its merge primitive), the csv reader/writer and the benchmark harness   *)
(* get_time as it is driven by main.                                       *)
(*                                                                         *)
(* Iterators are modelled as 1-based positions in a sequence: first = 1,   *)
(* last = Len(a) + 1.  Iterator arithmetic that leaves [first, last] but   *)
(* is never dereferenced (first - 1 in the loop tests of insertion_sort    *)
(* and shaker_sort, first + 1 on an empty range) is modelled as plain      *)
(* integer arithmetic, which is what a pointer-backed vector iterator      *)
(* does.  std::string values are sequences of character codes.             *)
(***************************************************************************)
EXTENDS Integers, Sequences, FiniteSets

\* ------------------------------------------------------------------ bounds

\* longest dataset whose sort is explored exhaustively
MaxLen == 4
\* call-stack frames available to merge_sort before the process overflows
MaxDepth == 6
\* largest value the steady clock reaches
MaxClock == 1
\* datasets per get_time call in main: 6 for insertion/shaker, 15 for merge/std
SmallCount == 1
LargeCount == 2

\* ------------------------------------------------------- Soldier, ordering

Soldier(f, j, u, s) == [full_name |-> f, job |-> j, unit |-> u, salary |-> s]

\* the records datasets are built from: S1 and S2 differ in job only (equal
\* ordering keys); S3 has the greater name but the smaller salary; S4 has the
\* greater unit but the smaller name and salary; S5 differs from S1 in salary
S1 == Soldier(<<1, 2>>, <<1>>, <<1>>, 1)
S2 == Soldier(<<1, 2>>, <<2>>, <<1>>, 1)
S3 == Soldier(<<1, 3>>, <<1>>, <<1>>, 0)
S4 == Soldier(<<1>>, <<1>>, <<2>>, 0)
S5 == Soldier(<<1, 2>>, <<1>>, <<1>>, 2)

Soldiers == {S1, S2, S3, S4, S5}

\* std::string operator<: lexicographic, a proper prefix is smaller
RECURSIVE StrLess(_, _)
StrLess(s, t) ==
  IF t = <<>> THEN FALSE
  ELSE IF s = <<>> THEN TRUE
  ELSE IF Head(s) < Head(t) THEN TRUE
  ELSE IF Head(t) < Head(s) THEN FALSE
  ELSE StrLess(Tail(s), Tail(t))

\* operator<(Soldier, Soldier): std::tie(unit, full_name, salary) compared
\* lexicographically
Less(a, b) ==
  IF StrLess(a.unit, b.unit) THEN TRUE
  ELSE IF StrLess(b.unit, a.unit) THEN FALSE
  ELSE IF StrLess(a.full_name, b.full_name) THEN TRUE
  ELSE IF StrLess(b.full_name, a.full_name) THEN FALSE
  ELSE a.salary < b.salary

\* the comparator get_time passes: std::less<Soldier>
comp(a, b) == Less(a, b)

\* std::iter_swap(p, q)
iter_swap(a, p, q) == [a EXCEPT ![p] = a[q], ![q] = a[p]]

\* ---------------------------------------------------------- insertion_sort

\* A sort's run: the sequence, the comparator calls made so far (each with
\* the positions i, j the loop is at, the two operands x, y in argument
\* order and the answer lt), the passes shaker_sort completed, and whether
\* the call returned
Run(a) == [data |-> a, cmps |-> <<>>, passes |-> <<>>, status |-> "returned"]

\* one test of the inner loop body, lines 159-161
InsertionBody(st, t, i, j) ==
  LET c == comp(t, st.data[j])
  IN [st EXCEPT !.data = IF c THEN iter_swap(st.data, j, j + 1) ELSE @,
                !.cmps = Append(@, [i |-> i, j |-> j, x |-> t,
                                    y |-> st.data[j], lt |-> c])]

\* for (auto j = i - 1; j >= first; --j), lines 158-162
RECURSIVE InsertionInner(_, _, _, _)
InsertionInner(st, t, i, j) ==
  IF j >= 1 THEN InsertionInner(InsertionBody(st, t, i, j), t, i, j - 1)
  ELSE st

\* for (auto i = first + 1; i < last; ++i), lines 156-163
RECURSIVE InsertionOuter(_, _)
InsertionOuter(st, i) ==
  IF i < Len(st.data) + 1
  THEN InsertionOuter(InsertionInner(st, st.data[i], i, i - 1), i + 1)
  ELSE st

insertion_sort(a) == InsertionOuter(Run(a), 2)

\* ------------------------------------------------------------- shaker_sort

\* a pass in progress: the run, the no_swaps flag, and the swaps and
\* comparator calls of this pass
Pass(st, ns) == [run |-> st, no_swaps |-> ns, swaps |-> 0, n |-> 0]

\* the pass as the run's next completed pass
EndPass(ps, dir) ==
  [ps.run EXCEPT !.passes = Append(@, [dir |-> dir, swaps |-> ps.swaps,
                                       n |-> ps.n])]

\* lines 185-188
ForwardBody(ps, i) ==
  LET d == ps.run.data
      c == comp(d[i + 1], d[i])
  IN [run |-> [ps.run EXCEPT
                 !.data = IF c THEN iter_swap(d, i + 1, i) ELSE @,
                 !.cmps = Append(@, [i |-> i + 1, j |-> i, x |-> d[i + 1],
                                     y |-> d[i], lt |-> c])],
      no_swaps |-> IF c THEN FALSE ELSE ps.no_swaps,
      swaps |-> IF c THEN ps.swaps + 1 ELSE ps.swaps,
      n |-> ps.n + 1]

\* for (auto i = left_bound; i < right_bound; ++i), lines 184-189
RECURSIVE ShakerForward(_, _, _)
ShakerForward(ps, i, right_bound) ==
  IF i < right_bound THEN ShakerForward(ForwardBody(ps, i), i + 1, right_bound)
  ELSE ps

\* the backward pass swapping unless the left element is less: !comp(*(i - 1), *i)
BackwardBodyNonStrict(ps, i) ==
  LET d == ps.run.data
      c == ~comp(d[i - 1], d[i])
  IN [run |-> [ps.run EXCEPT
                 !.data = IF c THEN iter_swap(d, i, i - 1) ELSE @,
                 !.cmps = Append(@, [i |-> i - 1, j |-> i, x |-> d[i - 1],
                                     y |-> d[i], lt |-> ~c])],
      no_swaps |-> ps.no_swaps,
      swaps |-> IF c THEN ps.swaps + 1 ELSE ps.swaps,
      n |-> ps.n + 1]

\* lines 195-197: no_swaps is not written here
BackwardBody(ps, i) ==
  LET d == ps.run.data
      c == comp(d[i], d[i - 1])
  IN [run |-> [ps.run EXCEPT
                 !.data = IF c THEN iter_swap(d, i, i - 1) ELSE @,
                 !.cmps = Append(@, [i |-> i, j |-> i - 1, x |-> d[i],
                                     y |-> d[i - 1], lt |-> c])],
      no_swaps |-> ps.no_swaps,
      swaps |-> IF c THEN ps.swaps + 1 ELSE ps.swaps,
      n |-> ps.n + 1]

\* for (auto i = right_bound; i >= left_bound; --i), lines 194-198
RECURSIVE ShakerBackward(_, _, _)
ShakerBackward(ps, i, left_bound) ==
  IF i >= left_bound THEN ShakerBackward(BackwardBody(ps, i), i - 1, left_bound)
  ELSE ps

\* while (left_bound <= right_bound), lines 183-202
RECURSIVE ShakerLoop(_, _, _, _)
ShakerLoop(st, left_bound, right_bound, no_swaps) ==
  IF left_bound <= right_bound
  THEN LET f == ShakerForward(Pass(st, no_swaps), left_bound, right_bound)
           b == ShakerBackward(Pass(EndPass(f, "forward"), f.no_swaps),
                               right_bound, left_bound + 1)
       IN IF f.no_swaps THEN EndPass(f, "forward")
          ELSE IF b.no_swaps THEN EndPass(b, "backward")
          ELSE ShakerLoop(EndPass(b, "backward"), left_bound + 1,
                          right_bound - 1, b.no_swaps)
  ELSE st

\* left_bound = first, right_bound = last - 1, no_swaps = true
shaker_sort(a) == ShakerLoop(Run(a), 1, Len(a), TRUE)

\* ------------------------------------------------------- merge, merge_sort

\* a merge in progress: the run (its cmps grow), the temporary vector result
MergeStep(ms, x, y, c) ==
  [run |-> [ms.run EXCEPT !.cmps = Append(@, [i |-> ms.i, j |-> ms.j, x |-> x,
                                              y |-> y, lt |-> c])],
   result |-> Append(ms.result, IF c THEN x ELSE y),
   i |-> IF c THEN ms.i + 1 ELSE ms.i,
   j |-> IF c THEN ms.j ELSE ms.j + 1]

\* while (i < l_last and j < r_last), lines 225-233
RECURSIVE MergeHeads(_, _, _)
MergeHeads(ms, l_last, r_last) ==
  IF ms.i < l_last /\ ms.j < r_last
  THEN MergeHeads(MergeStep(ms, ms.run.data[ms.i], ms.run.data[ms.j],
                            comp(ms.run.data[ms.i], ms.run.data[ms.j])),
                  l_last, r_last)
  ELSE ms

\* merge without its first tail loop: what is left of the left sub-range is
\* not copied to result
MergeTailsRightOnly(ms, l_last, r_last) ==
  ms.result \o SubSeq(ms.run.data, ms.j, r_last - 1)

\* the two tail loops, lines 235-241
MergeTails(ms, l_last, r_last) ==
  ms.result \o SubSeq(ms.run.data, ms.i, l_last - 1)
            \o SubSeq(ms.run.data, ms.j, r_last - 1)

\* std::copy(result.begin(), result.end(), l_first), line 243
CopyBack(a, result, l_first) ==
  [k \in 1..Len(a) |->
     IF k >= l_first /\ k < l_first + Len(result)
     THEN result[k - l_first + 1] ELSE a[k]]

merge(st, l_first, l_last, r_first, r_last) ==
  LET ms == MergeHeads([run |-> st, result |-> <<>>, i |-> l_first,
                        j |-> r_first], l_last, r_last)
  IN [ms.run EXCEPT
        !.data = CopyBack(@, MergeTails(ms, l_last, r_last), l_first)]

\* lines 253-265; depth counts the frames on the call stack, and a call that
\* finds no frame left ends the process (stack overflow)
RECURSIVE merge_sort(_, _, _, _)
merge_sort(st, first, last, depth) ==
  IF depth > MaxDepth THEN [st EXCEPT !.status = "overflow"]
  ELSE IF first + 1 = last THEN st
  ELSE LET mid == (last - first) \div 2
           l == merge_sort(st, first, first + mid, depth + 1)
           r == merge_sort(l, first + mid, last, depth + 1)
       IN IF l.status # "returned" THEN l
          ELSE IF r.status # "returned" THEN r
          ELSE merge(r, first, first + mid, first + mid, last)

\* ---------------------------------------------------------------- std::sort

IsSorted(a) == \A k \in 1..(Len(a) - 1) : ~Less(a[k + 1], a[k])

\* std::sort is the library's: some ascending arrangement of the same
\* elements, with no promise about the order of equivalent ones
std_sort(a) ==
  {Run([k \in 1..Len(a) |-> a[f[k]]]) :
     f \in {g \in [1..Len(a) -> 1..Len(a)] :
              /\ \A p, q \in 1..Len(a) : p # q => g[p] # g[q]
              /\ IsSorted([k \in 1..Len(a) |-> a[g[k]]])}}

\* the dispatch on algo, lines 281-288: an unknown name sorts nothing
Sorted(algo, a) ==
  CASE algo = "insertion_sort" -> {insertion_sort(a)}
    [] algo = "shaker_sort" -> {shaker_sort(a)}
    [] algo = "merge_sort" -> {merge_sort(Run(a), 1, Len(a) + 1, 1)}
    [] algo = "std::sort" -> std_sort(a)
    [] OTHER -> {Run(a)}

\* ---------------------------------------------------- read_csv, write_csv

\* character codes: "0".."9" are 0..9, NotADigit is a letter
NotADigit == 10

\* std::to_string / operator<< of a non-negative int: its decimal digits
RECURSIVE to_string(_)
to_string(n) == IF n < 10 THEN <<n>> ELSE Append(to_string(n \div 10), n % 10)

\* the value of the leading digits of a text
RECURSIVE DigitsValue(_, _)
DigitsValue(t, acc) ==
  IF t # <<>> /\ Head(t) < NotADigit
  THEN DigitsValue(Tail(t), 10 * acc + Head(t))
  ELSE acc

\* std::stoi: throws std::invalid_argument when no digit leads the text
stoi_throws(t) == t = <<>> \/ Head(t) >= NotADigit
stoi(t) == DigitsValue(t, 0)

\* A dataset file: whether it can be opened, and its lines, each the vector
\* of fields split(line, ',') returns for it
CsvLine(v) == <<v.full_name, v.job, v.unit, to_string(v.salary)>>
CsvFile(a) == [open |-> TRUE, lines |-> [k \in 1..Len(a) |-> CsvLine(a[k])]]
Missing == [open |-> FALSE, lines |-> <<>>]
\* a line whose salary is not a number, and a line with two fields only
BadSalaryLine == <<<<1, 2>>, <<1>>, <<1>>, <<NotADigit>>>>
ShortLine == <<<<1, 2>>, <<1>>>>

\* the loop of read_csv, lines 109-113.  fields_v[k] beyond the fields of a
\* line is undefined: the process dies, or some record is built from what
\* lies there.  An exception of std::stoi is caught nowhere and ends the
\* process.
RECURSIVE ReadLines(_, _)
ReadLines(lines, data) ==
  IF lines = <<>> THEN {[status |-> "ok", data |-> data]}
  ELSE LET f == Head(lines)
       IN IF Len(f) < 4
          THEN {[status |-> "crash", data |-> data]}
               \cup UNION {ReadLines(Tail(lines), Append(data, g)) :
                             g \in Soldiers}
          ELSE IF stoi_throws(f[4])
          THEN {[status |-> "crash", data |-> data]}
          ELSE ReadLines(Tail(lines),
                         Append(data, Soldier(f[1], f[2], f[3], stoi(f[4]))))

\* read_csv, lines 98-116: a file that does not open is reported on cerr and
\* read as no lines
read_csv(file) == ReadLines(IF file.open THEN file.lines ELSE <<>>, <<>>)

\* the lines write_csv writes, lines 128-131
Written(data) == [k \in 1..Len(data) |-> CsvLine(data[k])]

\* ------------------------------------------------------------- the harness

\* the directories main creates below data/out/, lines 314-316
OutDirs == {"insertion", "shaker", "merge", "sort"}

\* the destination get_time writes dataset i to, line 295
OutPath(algo, i) == <<"insertion", i>>

\* main's calls of get_time, lines 318-324
Calls ==
  << [algo |-> "insertion_sort", j |-> SmallCount],
     [algo |-> "shaker_sort", j |-> SmallCount],
     [algo |-> "merge_sort", j |-> LargeCount],
     [algo |-> "std::sort", j |-> LargeCount] >>

Algos == {Calls[c].algo : c \in 1..Len(Calls)}

VARIABLES
  fs,      \* data/in/dataset_<i>.csv for each i
  dirs,    \* the directories below data/out/ that exist
  sink,    \* the files below data/out/: <<directory, i>> -> lines
  cerr,    \* the number of lines written to std::cerr
  cout,    \* the lines written to std::cout
  clock,   \* the last value std::chrono::steady_clock::now() returned
  pc,      \* where the program is
  call,    \* main: the call of get_time being made (0: get_time called alone)
  times,   \* main: the pairs the calls of get_time returned
  algo,    \* get_time: the parameter algo
  j,       \* get_time: the parameter j
  i,       \* get_time: the loop variable
  x,       \* get_time: the sizes
  y,       \* get_time: the elapsed times
  data,    \* get_time: the vector of this iteration
  start,   \* get_time: the first timestamp
  finish,  \* get_time: the second timestamp
  loaded,  \* what read_csv returned in this iteration (history)
  run      \* the run of the sort of this iteration (history)

vars == <<fs, dirs, sink, cerr, cout, clock, pc, call, times, algo, j, i, x, y,
          data, start, finish, loaded, run>>

env == <<fs, dirs, sink, cerr, cout>>
mainvars == <<call, times>>
params == <<algo, j>>

\* the datasets main is run on
MainFiles ==
  {Missing, CsvFile(<<>>), CsvFile(<<S1>>), CsvFile(<<S4, S1>>),
   [open |-> TRUE, lines |-> <<BadSalaryLine>>],
   [open |-> TRUE, lines |-> <<CsvLine(S1), ShortLine>>]}

\* the sequences of at most n records
RECURSIVE SeqsUpTo(_)
SeqsUpTo(n) ==
  IF n = 0 THEN {<<>>}
  ELSE LET shorter == SeqsUpTo(n - 1)
       IN shorter \cup {Append(a, v) : a \in {b \in shorter : Len(b) = n - 1},
                                       v \in Soldiers}

Locals ==
  /\ algo = "" /\ j = 0 /\ i = 0
  /\ x = <<>> /\ y = <<>>
  /\ data = <<>> /\ loaded = <<>> /\ run = Run(<<>>)
  /\ start = 0 /\ finish = 0

\* the program before main's first statement
Init ==
  /\ fs \in [1..LargeCount -> MainFiles]
  /\ dirs = {} /\ sink = <<>> /\ cerr = 0 /\ cout = <<>>
  /\ clock \in 0..MaxClock
  /\ pc = "boot" /\ call = 1 /\ times = <<>>
  /\ Locals

\* std::system("rm -rf data/out/ && mkdir ..."), lines 314-316: its result is
\* not looked at
Bootstrap ==
  /\ pc = "boot"
  /\ pc' = "call"
  /\ sink' = <<>>
  /\ \/ dirs' = OutDirs
     \/ dirs' = {}
  /\ UNCHANGED <<fs, cerr, cout, clock, mainvars, params, i, x, y, data,
                 start, finish, loaded, run>>

\* entry of get_time(count, name), lines 274-277
Enter(count, name) ==
  /\ algo' = name /\ j' = count
  /\ x' = <<>> /\ y' = <<>>
  /\ i' = 1
  /\ pc' = "loop"
  /\ UNCHANGED <<env, clock, mainvars, data, start, finish, loaded, run>>

\* main calls get_time, lines 318-324
CallGetTime ==
  /\ pc = "call" /\ call <= Len(Calls)
  /\ Enter(Calls[call].j, Calls[call].algo)

\* auto data = read_csv(...), line 278
Load ==
  /\ pc = "loop" /\ i <= j
  /\ cerr' = IF fs[i].open THEN cerr ELSE cerr + 1
  /\ \E r \in read_csv(fs[i]) :
       IF r.status = "ok"
       THEN /\ data' = r.data /\ loaded' = r.data
            /\ pc' = "start"
       ELSE /\ pc' = "crashed"
            /\ UNCHANGED <<data, loaded>>
  /\ UNCHANGED <<fs, dirs, sink, cout, clock, mainvars, params, i, x, y,
                 start, finish, run>>

\* steady_clock::now(): never less than what it returned before
Now(t) == t \in clock..MaxClock /\ clock' = t

\* const auto start{...}, line 279
Start ==
  /\ pc = "start"
  /\ \E t \in 0..MaxClock : Now(t) /\ start' = t
  /\ pc' = "sort"
  /\ UNCHANGED <<env, mainvars, params, i, x, y, data, finish, loaded, run>>

\* the sort, lines 281-288
Sort ==
  /\ pc = "sort"
  /\ \E r \in Sorted(algo, data) :
       /\ run' = r
       /\ IF r.status = "returned"
          THEN data' = r.data /\ pc' = "finish"
          ELSE data' = data /\ pc' = "crashed"
  /\ UNCHANGED <<env, clock, mainvars, params, i, x, y, start, finish, loaded>>

\* const auto finish{...}, lines 290-291
Finish ==
  /\ pc = "finish"
  /\ \E t \in 0..MaxClock : Now(t) /\ finish' = t
  /\ pc' = "push"
  /\ UNCHANGED <<env, mainvars, params, i, x, y, data, start, loaded, run>>

\* get_time taking the difference the wrong way round: start - finish
PushReversed ==
  /\ pc = "push"
  /\ x' = Append(x, Len(data))
  /\ y' = Append(y, start - finish)
  /\ pc' = "write"
  /\ UNCHANGED <<env, clock, mainvars, params, i, data, start, finish,
                 loaded, run>>

\* x.push_back(data.size()); y.push_back(elapsed_seconds.count()), 292-293
Push ==
  /\ pc = "push"
  /\ x' = Append(x, Len(data))
  /\ y' = Append(y, finish - start)
  /\ pc' = "write"
  /\ UNCHANGED <<env, clock, mainvars, params, i, data, start, finish,
                 loaded, run>>

\* write_csv(...), line 295 and lines 123-132: a file that does not open is
\* reported on cerr and nothing is written
Write ==
  /\ pc = "write"
  /\ LET path == OutPath(algo, i)
     IN IF path[1] \in dirs
        THEN /\ sink' = [p \in DOMAIN sink \cup {path} |->
                           IF p = path THEN Written(data) ELSE sink[p]]
             /\ cerr' = cerr
        ELSE /\ cerr' = cerr + 1
             /\ sink' = sink
  /\ pc' = "report"
  /\ UNCHANGED <<fs, dirs, cout, clock, mainvars, params, i, x, y, data,
                 start, finish, loaded, run>>

\* std::cout << ..., lines 299-300, and ++i: y.at(i - 1) throws out of range
Report ==
  /\ pc = "report"
  /\ IF i - 1 < Len(y)
     THEN /\ cout' = Append(cout, <<algo, i, Len(data), y[i]>>)
          /\ i' = i + 1
          /\ pc' = "loop"
     ELSE /\ pc' = "crashed"
          /\ UNCHANGED <<cout, i>>
  /\ UNCHANGED <<fs, dirs, sink, cerr, clock, mainvars, params, x, y, data,
                 start, finish, loaded, run>>

\* return {x, y}, line 303, into main's variable
Return ==
  /\ pc = "loop" /\ i > j
  /\ times' = Append(times, <<x, y>>)
  /\ call' = call + 1
  /\ pc' = "call"
  /\ UNCHANGED <<env, clock, params, i, x, y, data, start, finish, loaded, run>>

\* the plots, lines 326-354, and return 0
Plot ==
  /\ pc = "call" /\ call > Len(Calls)
  /\ pc' = "done"
  /\ UNCHANGED <<env, clock, mainvars, params, i, x, y, data, start, finish,
                 loaded, run>>

Next ==
  \/ Bootstrap
  \/ CallGetTime
  \/ Load
  \/ Start
  \/ Sort
  \/ Finish
  \/ Push
  \/ Write
  \/ Report
  \/ Return
  \/ Plot

Spec == Init /\ [][Next]_vars

\* get_time(1, name) on one dataset of at most MaxLen records, from the
\* moment the dataset is loaded and the first timestamp taken
SortInit ==
  /\ \E a \in SeqsUpTo(MaxLen) :
       /\ fs = [k \in {1} |-> CsvFile(a)]
       /\ data = a /\ loaded = a
  /\ dirs = OutDirs /\ sink = <<>> /\ cerr = 0 /\ cout = <<>>
  /\ clock \in 0..MaxClock /\ start = clock /\ finish = 0
  /\ pc = "sort" /\ call = 0 /\ times = <<>>
  /\ algo \in Algos /\ j = 1 /\ i = 1
  /\ x = <<>> /\ y = <<>> /\ run = Run(<<>>)

SortNext == Sort

SortSpec == SortInit /\ [][SortNext]_vars

\* ------------------------------------------------------------ the claims

Range(a) == {a[k] : k \in 1..Len(a)}
Occurrences(a, v) == Cardinality({k \in 1..Len(a) : a[k] = v})

\* the same multiset of records
SameRecords(a, b) ==
  /\ Len(a) = Len(b)
  /\ \A v \in Range(a) \cup Range(b) : Occurrences(a, v) = Occurrences(b, v)

\* non-decreasing per the Record ordering
NonDecreasing(a) ==
  \A p, q \in 1..Len(a) : p < q => ~Less(a[q], a[p])

\* equal ordering keys: neither record is less than the other
SameKey(u, v) == ~Less(u, v) /\ ~Less(v, u)

\* b keeps the order a has among the records of each ordering key
Stable(a, b) ==
  \A v \in Range(a) :
    SelectSeq(b, LAMBDA e : SameKey(e, v)) =
      SelectSeq(a, LAMBDA e : SameKey(e, v))

OwnSorts == {"insertion_sort", "shaker_sort", "merge_sort"}

\* the sort of this iteration was called and is over (it returned or the
\* process died in it)
SortOver == pc # "sort"

\* C1: when insertion_sort, shaker_sort or merge_sort returns, the sequence
\* is non-decreasing per the Record ordering and holds exactly the records of
\* the input, each as often as the input does.
C1_SortedPermutation ==
  (pc = "finish" /\ algo \in OwnSorts) =>
    (NonDecreasing(data) /\ SameRecords(data, loaded))

\* C1 happens: merge_sort returned from an input of three or more records
\* that it had to rearrange
C1_Witness ==
  /\ pc = "finish" /\ algo = "merge_sort"
  /\ Len(loaded) >= 3 /\ data # loaded
  /\ S1 \in Range(loaded) /\ S4 \in Range(loaded)

\* C2: on an empty or a single-element sequence each of the three sorts
\* terminates, leaves the sequence as it was and calls the comparator not
\* once.
C2_TrivialInputs ==
  (SortOver /\ algo \in OwnSorts /\ Len(loaded) <= 1) =>
    (pc = "finish" /\ data = loaded /\ run.cmps = <<>>)

\* C3: whenever merge compares two heads that are equal in the ordering key
\* it takes the left one, and so merge_sort keeps the input order of records
\* with equal keys.
C3_MergeStable ==
  (pc = "finish" /\ algo = "merge_sort") =>
    /\ \A k \in 1..Len(run.cmps) :
         SameKey(run.cmps[k].x, run.cmps[k].y) => run.cmps[k].lt
    /\ Stable(loaded, data)

\* C4: insertion_sort and shaker_sort keep the input order of any two
\* records whose ordering keys are equal.
C4_AdjacentSortsStable ==
  (pc = "finish" /\ algo \in {"insertion_sort", "shaker_sort"}) =>
    Stable(loaded, data)

\* C4 happens: shaker_sort returned from an input it had to rearrange and
\* that holds two different records with equal keys
C4_Witness ==
  /\ pc = "finish" /\ algo = "shaker_sort"
  /\ data # loaded
  /\ \E p, q \in 1..Len(loaded) :
       p < q /\ loaded[p] # loaded[q] /\ SameKey(loaded[p], loaded[q])

\* C5: each of the three sorts, applied to a sequence that is already
\* non-decreasing, returns it as it was, record by record, job included.
C5_Idempotent ==
  (pc = "finish" /\ algo \in OwnSorts /\ NonDecreasing(loaded)) =>
    data = loaded

\* C6: no sample is appended to the series for a dataset that could not be
\* opened.
C6_MissingSurfaced ==
  \A k \in 1..Len(x) : fs[k].open

\* the directory main creates for each algorithm
AlgoDir(name) ==
  CASE name = "insertion_sort" -> "insertion"
    [] name = "shaker_sort" -> "shaker"
    [] name = "merge_sort" -> "merge"
    [] name = "std::sort" -> "sort"

\* C7: when main has run the four algorithms (the output directories having
\* been created), the sink holds one output per algorithm and dataset index,
\* each in the directory of its algorithm.
C7_SinkPerAlgorithm ==
  (pc = "done" /\ dirs = OutDirs) =>
    \A c \in 1..Len(Calls) : \A k \in 1..Calls[c].j :
      <<AlgoDir(Calls[c].algo), k>> \in DOMAIN sink

\* the number of records read_csv loads from dataset k: one per line
RecordsLoaded(k) == IF fs[k].open THEN Len(fs[k].lines) ELSE 0

C8_Aligned ==
  /\ Len(x) = Len(y)
  /\ pc = "loop" => Len(x) = i - 1
  /\ \A k \in 1..Len(x) : x[k] = RecordsLoaded(k) /\ y[k] >= 0
  /\ \A c \in 1..Len(times) :
       /\ Len(times[c][1]) = Calls[c].j
       /\ Len(times[c][2]) = Calls[c].j
       /\ \A k \in 1..Calls[c].j :
            times[c][1][k] = RecordsLoaded(k) /\ times[c][2][k] >= 0

C8_Kept ==
  pc # "call" =>
    /\ Len(x') >= Len(x) /\ Len(y') >= Len(y)
    /\ \A k \in 1..Len(x) : x'[k] = x[k]
    /\ \A k \in 1..Len(y) : y'[k] = y[k]

\* C8: the two series of get_time are always equally long, hold k entries
\* after the k-th iteration, the k-th size being the number of records loaded
\* from dataset k and every elapsed time being >= 0; the series returned have
\* count entries; and within a call no entry once appended is changed.
C8_Series == []C8_Aligned /\ [][C8_Kept]_vars

\* C8 happens: a call returned series of two or more entries with different
\* sizes and an elapsed time above 0
C8_Witness ==
  \E c \in 1..Len(times) :
    /\ Len(times[c][1]) >= 2
    /\ times[c][1][1] # times[c][1][2]
    /\ times[c][2][2] > 0

\* C9: after a forward pass of shaker_sort without a swap the comparator is
\* not called again.
C9_EarlyExit ==
  (pc = "finish" /\ algo = "shaker_sort") =>
    \A k \in 1..Len(run.passes) :
      (run.passes[k].dir = "forward" /\ run.passes[k].swaps = 0) =>
        \A m \in (k + 1)..Len(run.passes) : run.passes[m].n = 0

\* C10: in insertion_sort, once the comparator has answered that the key at
\* i is not less than the element at j, the key at i is compared with no
\* element further left.
C10_ScanStops ==
  (pc = "finish" /\ algo = "insertion_sort") =>
    \A p, q \in 1..Len(run.cmps) :
      (p < q /\ run.cmps[p].i = run.cmps[q].i) => run.cmps[p].lt

====
